---- MODULE Spec2Model ----
(***************************************************************************)
(* A model of create-test-images.py: a straight-line script that creates   *)
(* /tmp/test-images and writes three 400x400 RGB fixtures (circle, star,   *)
(* heart) into it, printing one line per file and a summary.               *)
(*                                                                         *)
(* The program counter is the source line about to execute.  A canvas is   *)
(* observed at one pixel, `probe', fixed for a behaviour: every drawing    *)
(* operation of the script acts on a pixel independently of the others, so *)
(* the set of behaviours over all probes is the behaviour of the canvas.   *)
(***************************************************************************)
EXTENDS Integers, Sequences, FiniteSets

VARIABLES
    pc,       \* the source line about to execute (EndOfScript after the last)
    exc,      \* the unhandled exception that ended the run, "" when none
    dirs,     \* /tmp and /tmp/test-images: absent, a directory or a file; may /tmp/test-images be made
    files,    \* the content of each path under /tmp/test-images
    img,      \* img1, img2, img3: the canvases
    draw,     \* draw1, draw2, draw3: the canvas each draws on, 0 when unbound
    console,  \* the lines printed by this run
    calls,    \* the library calls this run has made, in order, with their outcome
    probe,    \* the pixel at which the canvases and the files are observed
    run,      \* this run's number
    start,    \* the filesystem when this run started
    prev      \* the filesystem and the console when the run before ended

vars == <<pc, exc, dirs, files, img, draw, console, calls, probe, run, start, prev>>

(***************************************************************************)
(* Bounds of the model.                                                    *)
(***************************************************************************)
\* files with other names that may lie in the output directory before a run
NumOther == 1
\* runs of the script in a row (a re-run follows a successful run)
MaxRuns == 2
\* the probes of SpecPixels lie on a ProbesPerAxis x ProbesPerAxis grid
ProbesPerAxis == 40

(***************************************************************************)
(* Literals of the script.                                                 *)
(***************************************************************************)
Fixtures == 1..3

CanvasSide == 400

OutDir == "/tmp/test-images"

\* a path is <<directory, file name>>; a console line is the sequence of its parts
SavePath == << <<OutDir, "image1.png">>, <<OutDir, "image2.png">>, <<OutDir, "image3.png">> >>

CreatedLine == << <<"Created ", "image1.png">>, <<"Created ", "image2.png">>, <<"Created ", "image3.png">> >>

\* print("\nTest images created in /tmp/test-images/") writes an empty line and the summary
SummaryLines == << <<>>, <<"Test images created in ", OutDir, "/">> >>

\* a colour argument: a colour name, or the hex digits of '#rrggbb'
Named(n) == [name |-> n, hex |-> <<>>]

Hex(ds) == [name |-> "", hex |-> ds]

NoColour == Named("none")

Black == Named("black")

CircleFill == Hex(<<6, 6, 7, 14, 14, 10>>)

CircleOutline == Hex(<<7, 6, 4, 11, 10, 2>>)

StarFill == Hex(<<15, 0, 9, 3, 15, 11>>)

StarOutline == Hex(<<15, 5, 5, 7, 6, 12>>)

HeartFill == Hex(<<15, 15, 5, 2, 5, 2>>)

star_points == << <<200, 50>>, <<220, 150>>, <<300, 150>>, <<240, 210>>, <<270, 300>>, <<200, 250>>, <<130, 300>>, <<160, 210>>, <<100, 150>>, <<180, 150>> >>

heart_points == << <<80, 150>>, <<320, 150>>, <<200, 330>> >>

Ellipse(xy, fill, outline, width) == [shape |-> "ellipse", xy |-> xy, fill |-> fill, outline |-> outline, width |-> width]

Polygon(xy, fill, outline, width) == [shape |-> "polygon", xy |-> xy, fill |-> fill, outline |-> outline, width |-> width]

HeartLeft == Ellipse(<<80, 100, 180, 200>>, HeartFill, NoColour, 1)

HeartRight == Ellipse(<<220, 100, 320, 200>>, HeartFill, NoColour, 1)

HeartTriangle == Polygon(heart_points, HeartFill, NoColour, 1)

\* the draw operations of each fixture, in the order of the script
Ops == << <<Ellipse(<<100, 100, 300, 300>>, CircleFill, CircleOutline, 5)>>, <<Polygon(star_points, StarFill, StarOutline, 5)>>, <<HeartLeft, HeartRight, HeartTriangle>> >>

(***************************************************************************)
(* The statements of the script, by source line.                           *)
(***************************************************************************)
Stmt(kind, k, i) == [kind |-> kind, k |-> k, i |-> i]

\* the directory made only after the first canvas is allocated
ProgramLinesNewFirst == <<8, 5, 9, 10, 11, 12, 15, 16, 30, 31, 32, 35, 36, 38, 39, 40, 41, 42, 44>>

ProgramLines == <<5, 8, 9, 10, 11, 12, 15, 16, 30, 31, 32, 35, 36, 38, 39, 40, 41, 42, 44>>

Program == [l \in {ProgramLines[n] : n \in 1..Len(ProgramLines)} |->
    CASE l = 5 -> Stmt("makedirs", 0, 0)
      [] l \in {8, 15, 35} -> Stmt("new", (CHOOSE k \in Fixtures : <<8, 15, 35>>[k] = l), 0)
      [] l \in {9, 16, 36} -> Stmt("Draw", (CHOOSE k \in Fixtures : <<9, 16, 36>>[k] = l), 0)
      [] l = 10 -> Stmt("shape", 1, 1)
      [] l = 30 -> Stmt("shape", 2, 1)
      [] l \in {38, 39, 40} -> Stmt("shape", 3, l - 37)
      [] l \in {11, 31, 41} -> Stmt("save", (CHOOSE k \in Fixtures : <<11, 31, 41>>[k] = l), 0)
      [] l \in {12, 32, 42} -> Stmt("print", (CHOOSE k \in Fixtures : <<12, 32, 42>>[k] = l), 0)
      [] l = 44 -> Stmt("summary", 0, 0)]

\* the line after the last statement
EndOfScript == 45

\* straight-line control flow: the next statement in source order
Succ(l) == LET n == CHOOSE m \in 1..Len(ProgramLines) : ProgramLines[m] = l
           IN IF n = Len(ProgramLines) THEN EndOfScript ELSE ProgramLines[n + 1]

Running == exc = "" /\ pc # EndOfScript

At(kind) == Running /\ Program[pc].kind = kind

(***************************************************************************)
(* The raster library, as far as the script uses it.                       *)
(***************************************************************************)
\* a getrgb that reads '#rrggbb' as blue, green, red
GetRGBSwapped(c) == IF c.name = "black" THEN <<0, 0, 0>>
                    ELSE <<16 * c.hex[5] + c.hex[6], 16 * c.hex[3] + c.hex[4], 16 * c.hex[1] + c.hex[2]>>

\* ImageColor.getrgb: a colour name or '#rrggbb' to an (r, g, b) triple
GetRGB(c) == IF c.name = "black" THEN <<0, 0, 0>>
             ELSE <<16 * c.hex[1] + c.hex[2], 16 * c.hex[3] + c.hex[4], 16 * c.hex[5] + c.hex[6]>>

Unbound == [bound |-> FALSE, mode |-> "", size |-> <<0, 0>>, px |-> <<0, 0, 0>>]

\* Image.new(mode, size, color): a canvas of one colour; px is its pixel at the probe
ImageNew(mode, size, color) == [bound |-> TRUE, mode |-> mode, size |-> size, px |-> GetRGB(color)]

\* pixel p lies on or inside the ellipse inscribed in the box xy = <<x0, y0, x1, y1>>
EllipseCovers(xy, p) ==
    LET w == xy[3] - xy[1]
        h == xy[4] - xy[2]
        dx == 2 * p[1] - xy[1] - xy[3]
        dy == 2 * p[2] - xy[2] - xy[4]
    IN /\ w > 0 /\ h > 0
       /\ xy[1] <= p[1] /\ p[1] <= xy[3] /\ xy[2] <= p[2] /\ p[2] <= xy[4]
       /\ dx * dx * h * h <= w * w * h * h - dy * dy * w * w

\* the outline of an ellipse is drawn inwards: the ring between the box and the box shrunk by width
EllipseBand(xy, width, p) ==
    /\ EllipseCovers(xy, p)
    /\ ~EllipseCovers(<<xy[1] + width, xy[2] + width, xy[3] - width, xy[4] - width>>, p)

Edges(pts) == {<<pts[n], pts[(n % Len(pts)) + 1]>> : n \in 1..Len(pts)}

Cross(a, b, p) == (b[1] - a[1]) * (p[2] - a[2]) - (b[2] - a[2]) * (p[1] - a[1])

Dot(a, b, p) == (b[1] - a[1]) * (p[1] - a[1]) + (b[2] - a[2]) * (p[2] - a[2])

OnSegment(e, p) == Cross(e[1], e[2], p) = 0 /\ Dot(e[1], e[2], p) >= 0 /\ Dot(e[2], e[1], p) >= 0

\* edge e crosses the horizontal ray from p to the right
RayCrosses(e, p) ==
    LET a == e[1]
        b == e[2]
    IN /\ (a[2] > p[2]) # (b[2] > p[2])
       /\ IF b[2] > a[2] THEN (p[1] - a[1]) * (b[2] - a[2]) < (p[2] - a[2]) * (b[1] - a[1])
                         ELSE (p[1] - a[1]) * (b[2] - a[2]) > (p[2] - a[2]) * (b[1] - a[1])

\* pixel p lies on or inside the polygon (even-odd scanline fill, edges included)
PolygonCovers(pts, p) ==
    \/ \E e \in Edges(pts) : OnSegment(e, p)
    \/ Cardinality({e \in Edges(pts) : RayCrosses(e, p)}) % 2 = 1

\* pixel p lies within half of `thick' of the segment e (4 * distance^2 <= thick^2)
NearSegment(e, thick, p) ==
    LET a == e[1]
        b == e[2]
        len2 == Dot(a, b, b)
        t == Dot(a, b, p)
        c == Cross(a, b, p)
    IN IF t <= 0 THEN 4 * Dot(a, p, p) <= thick * thick
       ELSE IF t >= len2 THEN 4 * Dot(b, p, p) <= thick * thick
       ELSE /\ c <= 20000 /\ c >= -20000
            /\ 4 * c * c <= thick * thick * len2

\* the outline of a polygon is a line of 2*width-1 along its edges, masked by its fill
PolygonBand(pts, width, p) ==
    /\ PolygonCovers(pts, p)
    /\ \E e \in Edges(pts) : NearSegment(e, IF width = 1 THEN 1 ELSE 2 * width - 1, p)

Covers(op, p) == IF op.shape = "ellipse" THEN EllipseCovers(op.xy, p) ELSE PolygonCovers(op.xy, p)

OnBand(op, p) == IF op.shape = "ellipse" THEN EllipseBand(op.xy, op.width, p) ELSE PolygonBand(op.xy, op.width, p)

HasFill(op) == op.fill # NoColour

\* ImageDraw draws an outline when one is given, it differs from the fill and width is not 0
HasOutline(op) == op.outline # NoColour /\ op.outline # op.fill /\ op.width # 0

\* ImageDraw.ellipse / ImageDraw.polygon: the fill first, then the outline over it, opaque
DrawFill(canvas, op, p) == IF HasFill(op) /\ Covers(op, p) THEN [canvas EXCEPT !.px = GetRGB(op.fill)] ELSE canvas

DrawOutline(canvas, op, p) == IF HasOutline(op) /\ OnBand(op, p) THEN [canvas EXCEPT !.px = GetRGB(op.outline)] ELSE canvas

\* a draw that paints the outline first and the fill over it
DrawShapeFillLast(canvas, op, p) == DrawFill(DrawOutline(canvas, op, p), op, p)

DrawShape(canvas, op, p) == DrawOutline(DrawFill(canvas, op, p), op, p)

(***************************************************************************)
(* Files.                                                                  *)
(***************************************************************************)
File(kind, mode, size, px) == [kind |-> kind, mode |-> mode, size |-> size, px |-> px]

Absent == File("absent", "", <<0, 0>>, <<0, 0, 0>>)

\* a file of no bytes
EmptyFile == File("empty", "", <<0, 0>>, <<0, 0, 0>>)

\* the first bytes of an encoding that was cut short
PartialFile == File("partial", "", <<0, 0>>, <<0, 0, 0>>)

\* an image some other program left under one of the three names
StaleFile == File("png", "RGBA", <<64, 64>>, <<9, 9, 9>>)

\* a file under another name
OtherData == File("data", "", <<0, 0>>, <<0, 0, 0>>)

\* a lower bound of the length in bytes: a PNG holds its signature, IHDR, IDAT and IEND
FileSize(f) == CASE f.kind = "png" -> 57 [] f.kind \in {"partial", "data"} -> 1 [] OTHER -> 0

\* Image.save as PNG: lossless, the file decodes to the mode, size and pixels of the canvas
Encode(canvas) == File("png", canvas.mode, canvas.size, canvas.px)

OtherPool == << <<OutDir, "image1.png.bak">>, <<OutDir, "notes.txt">>, <<OutDir, "image4.png">> >>

OtherPaths == {OtherPool[n] : n \in 1..NumOther}

ImagePaths == {SavePath[k] : k \in Fixtures}

AllPaths == ImagePaths \cup OtherPaths

\* a write that keeps a file that is already there (exclusive creation)
WriteFileKeep(fs, path, content) == IF fs[path] = Absent THEN [fs EXCEPT ![path] = content] ELSE fs

\* a write that first moves the file that is already there to a backup name
WriteFileBackup(fs, path, content) ==
    IF fs[path] = Absent THEN [fs EXCEPT ![path] = content]
    ELSE [fs EXCEPT ![path] = content, ![OtherPool[1]] = fs[path]]

\* a write that first empties the directory of everything but the three images
WriteFileClean(fs, path, content) ==
    [q \in DOMAIN fs |-> IF q = path THEN content ELSE IF q \in ImagePaths THEN fs[q] ELSE Absent]

\* open(path, "w+b") and a complete write: the file holds exactly the new content
WriteFile(fs, path, content) == [fs EXCEPT ![path] = content]

\* what a failed save may leave at its path: the old file untouched (open failed), a
\* truncated or partial file, or, when the save created the file, nothing
FailedWrites(old) == {old, EmptyFile, PartialFile} \cup (IF old = Absent THEN {Absent} ELSE {})

\* os.makedirs without exist_ok: an existing directory is an error
MakedirsStrict(d) ==
    IF d.out # "absent" THEN [ok |-> FALSE, err |-> "FileExistsError", dirs |-> d]
    ELSE IF ~d.perm THEN [ok |-> FALSE, err |-> "PermissionError", dirs |-> d]
    ELSE [ok |-> TRUE, err |-> "", dirs |-> [d EXCEPT !.tmp = "dir", !.out = "dir"]]

\* os.makedirs(name, exist_ok=True) on /tmp/test-images
Makedirs(d) ==
    IF d.out = "dir" THEN [ok |-> TRUE, err |-> "", dirs |-> d]
    ELSE IF d.out = "file" THEN [ok |-> FALSE, err |-> "FileExistsError", dirs |-> d]
    ELSE IF ~d.perm THEN [ok |-> FALSE, err |-> "PermissionError", dirs |-> d]
    ELSE [ok |-> TRUE, err |-> "", dirs |-> [d EXCEPT !.tmp = "dir", !.out = "dir"]]

\* a print that writes ahead of what is already on the console
printAhead(out, lines) == lines \o out

\* print(s): the lines of s are appended to the console
print(out, lines) == out \o lines

Call(op, k, ok) == [op |-> op, k |-> k, ok |-> ok]

(***************************************************************************)
(* The state before a run.                                                 *)
(***************************************************************************)
\* pixels of particular interest: the centre of the circle, its outline, the star's
\* outline, the two overlaps of a heart circle with the triangle, the notch between
\* the circles, a corner
KeyProbes == {<<200, 200>>, <<200, 102>>, <<200, 55>>, <<130, 160>>, <<270, 160>>, <<200, 140>>, <<0, 0>>}

GridProbes == {<<i * (CanvasSide \div ProbesPerAxis), j * (CanvasSide \div ProbesPerAxis)>> : i, j \in 0..(ProbesPerAxis - 1)}

\* the filesystem before the first run: /tmp/test-images absent (creatable or not),
\* a non-directory, or a directory holding any of the three images (empty, cut short
\* or stale) and any files of other names; perm is read only when the directory is
\* absent, so it is left TRUE otherwise
InitialDirs == {d \in [tmp : {"absent", "dir"}, out : {"absent", "dir", "file"}, perm : BOOLEAN] :
                    /\ d.tmp = "absent" => d.out = "absent"
                    /\ d.out # "absent" => d.perm}

InitialFiles(d) == IF d.out # "dir" THEN {[q \in AllPaths |-> Absent]}
                   ELSE {f \in [AllPaths -> {Absent, EmptyFile, PartialFile, StaleFile, OtherData}] :
                            /\ \A q \in ImagePaths : f[q] # OtherData
                            /\ \A q \in OtherPaths : f[q] \in {Absent, OtherData}}

InitWith(probes, dirstates) ==
    /\ pc = ProgramLines[1]
    /\ exc = ""
    /\ dirs \in dirstates
    /\ files \in InitialFiles(dirs)
    /\ img = [k \in Fixtures |-> Unbound]
    /\ draw = [k \in Fixtures |-> 0]
    /\ console = <<>>
    /\ calls = <<>>
    /\ probe \in probes
    /\ run = 1
    /\ start = [files |-> files, dirs |-> dirs]
    /\ prev = [files |-> files, dirs |-> dirs, console |-> <<>>]

Init == InitWith(KeyProbes, InitialDirs)

\* every probe, from an absent output directory
InitPixels == InitWith(KeyProbes \cup GridProbes, {d \in InitialDirs : d.tmp = "dir" /\ d.out = "absent" /\ d.perm})

(***************************************************************************)
(* The statements.                                                         *)
(***************************************************************************)
\* line 5: os.makedirs('/tmp/test-images', exist_ok=True)
DoMakedirs ==
    /\ At("makedirs")
    /\ LET r == Makedirs(dirs)
       IN /\ dirs' = r.dirs
          /\ calls' = Append(calls, Call("makedirs", 0, r.ok))
          /\ exc' = r.err
          /\ pc' = IF r.ok THEN Succ(pc) ELSE pc
    /\ UNCHANGED <<files, img, draw, console, probe, run, start, prev>>

\* lines 8, 15, 35: imgK = Image.new('RGB', (400, 400), color='black')
DoNew ==
    /\ At("new")
    /\ img' = [img EXCEPT ![Program[pc].k] = ImageNew("RGB", <<CanvasSide, CanvasSide>>, Black)]
    /\ calls' = Append(calls, Call("new", Program[pc].k, TRUE))
    /\ pc' = Succ(pc)
    /\ UNCHANGED <<exc, dirs, files, draw, console, probe, run, start, prev>>

\* every drawK bound to the first canvas
DrawTargetShared(k) == 1

\* the image drawK draws on
DrawTarget(k) == k

\* lines 9, 16, 36: drawK = ImageDraw.Draw(imgK)
DoDraw ==
    /\ At("Draw")
    /\ draw' = [draw EXCEPT ![Program[pc].k] = DrawTarget(Program[pc].k)]
    /\ calls' = Append(calls, Call("Draw", Program[pc].k, TRUE))
    /\ pc' = Succ(pc)
    /\ UNCHANGED <<exc, dirs, files, img, console, probe, run, start, prev>>

\* lines 10, 30, 38, 39, 40: drawK.ellipse(...) / drawK.polygon(...)
DoShape ==
    /\ At("shape")
    /\ LET k == Program[pc].k
           t == draw[k]
       IN /\ img' = [img EXCEPT ![t] = DrawShape(img[t], Ops[k][Program[pc].i], probe)]
          /\ calls' = Append(calls, Call("shape", k, TRUE))
    /\ pc' = Succ(pc)
    /\ UNCHANGED <<exc, dirs, files, draw, console, probe, run, start, prev>>

\* lines 11, 31, 41: imgK.save('/tmp/test-images/imageK.png') returns
DoSave ==
    /\ At("save")
    /\ dirs.out = "dir"
    /\ LET k == Program[pc].k
       IN /\ files' = WriteFile(files, SavePath[k], Encode(img[k]))
          /\ calls' = Append(calls, Call("save", k, TRUE))
    /\ pc' = Succ(pc)
    /\ UNCHANGED <<exc, dirs, img, draw, console, probe, run, start, prev>>

\* a failed save that is swallowed: the script goes on with the next statement
DoSaveFailContinue ==
    /\ At("save")
    /\ LET k == Program[pc].k
       IN /\ \E c \in FailedWrites(files[SavePath[k]]) : files' = [files EXCEPT ![SavePath[k]] = c]
          /\ calls' = Append(calls, Call("save", k, FALSE))
    /\ pc' = Succ(pc)
    /\ UNCHANGED <<exc, dirs, img, draw, console, probe, run, start, prev>>

\* lines 11, 31, 41: imgK.save(...) raises (no directory, no permission, disk full)
DoSaveFail ==
    /\ At("save")
    /\ LET k == Program[pc].k
       IN /\ \E c \in (IF dirs.out = "dir" THEN FailedWrites(files[SavePath[k]]) ELSE {files[SavePath[k]]}) :
                files' = [files EXCEPT ![SavePath[k]] = c]
          /\ calls' = Append(calls, Call("save", k, FALSE))
    /\ exc' = "OSError"
    /\ UNCHANGED <<pc, dirs, img, draw, console, probe, run, start, prev>>

\* lines 12, 32, 42: print("Created imageK.png")
DoPrint ==
    /\ At("print")
    /\ console' = print(console, <<CreatedLine[Program[pc].k]>>)
    /\ calls' = Append(calls, Call("print", Program[pc].k, TRUE))
    /\ pc' = Succ(pc)
    /\ UNCHANGED <<exc, dirs, files, img, draw, probe, run, start, prev>>

\* line 44: print("\nTest images created in /tmp/test-images/")
DoSummary ==
    /\ At("summary")
    /\ console' = print(console, SummaryLines)
    /\ calls' = Append(calls, Call("summary", 0, TRUE))
    /\ pc' = Succ(pc)
    /\ UNCHANGED <<exc, dirs, files, img, draw, probe, run, start, prev>>

\* the script is started again after a run that succeeded
Rerun ==
    /\ pc = EndOfScript
    /\ exc = ""
    /\ run < MaxRuns
    /\ pc' = ProgramLines[1]
    /\ img' = [k \in Fixtures |-> Unbound]
    /\ draw' = [k \in Fixtures |-> 0]
    /\ console' = <<>>
    /\ calls' = <<>>
    /\ run' = run + 1
    /\ start' = [files |-> files, dirs |-> dirs]
    /\ prev' = [files |-> files, dirs |-> dirs, console |-> console]
    /\ UNCHANGED <<exc, dirs, files, probe>>

Next == DoMakedirs \/ DoNew \/ DoDraw \/ DoShape \/ DoSave \/ DoSaveFail \/ DoPrint \/ DoSummary \/ Rerun

Spec == Init /\ [][Next]_vars

SpecPixels == InitPixels /\ [][Next]_vars

(***************************************************************************)
(* What a state says about the current run.                                *)
(***************************************************************************)
\* the save of fixture k has returned in this run
Written(k) == \E i \in DOMAIN calls : calls[i] = Call("save", k, TRUE)

\* the save of fixture k has been called in this run
Attempted(k) == \E i \in DOMAIN calls : calls[i].op = "save" /\ calls[i].k = k

\* the run has completed without a failure
Done == pc = EndOfScript /\ exc = ""

Ended == pc = EndOfScript \/ exc # ""

NumWritten == Cardinality({k \in Fixtures : Written(k)})

Emitted(line) == \E i \in DOMAIN console : console[i] = line

NumCreated == Cardinality({i \in DOMAIN console : \E k \in Fixtures : console[i] = CreatedLine[k]})

SuccessfulConsole == <<CreatedLine[1], CreatedLine[2], CreatedLine[3]>> \o SummaryLines

Pixels == (0..(CanvasSide - 1)) \X (0..(CanvasSide - 1))

InLeftOverlap(p) == Covers(HeartLeft, p) /\ Covers(HeartTriangle, p)

InRightOverlap(p) == Covers(HeartRight, p) /\ Covers(HeartTriangle, p)

InSharedOverlap(p) == Covers(HeartLeft, p) /\ Covers(HeartRight, p) /\ Covers(HeartTriangle, p)

\* the pixels that lie in both circles of the heart and in its triangle
SharedOverlap == {p \in Pixels : InSharedOverlap(p)}

LeftOverlapNonEmpty == \E p \in Pixels : InLeftOverlap(p)

RightOverlapNonEmpty == \E p \in Pixels : InRightOverlap(p)

\* the operations of fixture k that paint pixel p
Painting(k, p) == {i \in 1..Len(Ops[k]) : \/ HasFill(Ops[k][i]) /\ Covers(Ops[k][i], p)
                                          \/ HasOutline(Ops[k][i]) /\ OnBand(Ops[k][i], p)}

\* painter's algorithm: the colour of the last operation that paints p, else the background
Painted(k, p) ==
    IF Painting(k, p) = {} THEN <<0, 0, 0>>
    ELSE LET op == Ops[k][CHOOSE i \in Painting(k, p) : \A j \in Painting(k, p) : j <= i]
         IN IF HasOutline(op) /\ OnBand(op, p) THEN GetRGB(op.outline) ELSE GetRGB(op.fill)

(***************************************************************************)
(* The claims.                                                             *)
(***************************************************************************)
\* C1: after a run that completes without a failure, each of the three paths holds a
\* non-empty file that is a 400x400 RGB image, whatever the filesystem held before.
C1_SuccessfulRunLeavesThreeImages ==
    Done => /\ dirs.out = "dir"
            /\ \A k \in Fixtures :
                 LET f == files[SavePath[k]]
                 IN f.kind = "png" /\ FileSize(f) > 0 /\ f.mode = "RGB" /\ f.size = <<400, 400>>

\* a first run has completed over a stale image1, an empty image2 and no image3
C1_Witness ==
    /\ Done /\ run = 1 /\ start.dirs.out = "dir"
    /\ start.files[SavePath[1]] = StaleFile
    /\ start.files[SavePath[2]] = EmptyFile
    /\ start.files[SavePath[3]] = Absent

\* C2: a successful run that follows a successful run leaves the files, the directory
\* and the console output of the run before it: each image is written again and no
\* other file appears.
C2_RerunIsIdempotent ==
    (Done /\ run > 1) =>
        /\ files = prev.files
        /\ dirs = prev.dirs
        /\ console = prev.console
        /\ \A k \in Fixtures : Written(k)
        /\ {q \in AllPaths : files[q] # Absent} = {q \in AllPaths : prev.files[q] # Absent}

\* a second run has completed in a directory that held nothing before the first
C2_Witness ==
    /\ Done /\ run = 2 /\ Written(3)
    /\ \A q \in OtherPaths : files[q] = Absent

\* C3: in every state of a run, failed or not, every file under another name is as it
\* was before the run (and none has appeared).
C3_OtherFilesUntouched == \A q \in OtherPaths : files[q] = start.files[q]

\* a run has failed after writing image1 beside a file of another name
C3_Witness ==
    /\ exc = "OSError" /\ Written(1)
    /\ \E q \in OtherPaths : start.files[q] = OtherData /\ files[q] = OtherData

\* C4: a failed call is the last call of the run; when the save of fixture k fails,
\* every earlier fixture is on disk with its new content, no later save has been
\* attempted, and the console holds the confirmation lines of the earlier fixtures only.
C4_FailureHaltsWithoutRollback ==
    /\ \A i \in DOMAIN calls : ~calls[i].ok => (i = Len(calls) /\ exc # "")
    /\ exc # "" => (Len(calls) > 0 /\ ~calls[Len(calls)].ok)
    /\ \A k \in Fixtures :
         (exc # "" /\ calls[Len(calls)] = Call("save", k, FALSE)) =>
            /\ Program[pc] = Stmt("save", k, 0)
            /\ \A j \in 1..(k - 1) : Written(j) /\ files[SavePath[j]] = Encode(img[j])
            /\ \A j \in (k + 1)..3 : ~Attempted(j) /\ files[SavePath[j]] = start.files[SavePath[j]]
            /\ console = SubSeq(SuccessfulConsole, 1, k - 1)

\* the save of fixture 2 has failed after image1 replaced a stale file
C4_Witness ==
    /\ exc = "OSError" /\ Len(calls) > 0 /\ calls[Len(calls)] = Call("save", 2, FALSE)
    /\ start.files[SavePath[1]] = StaleFile
    /\ files[SavePath[1]] = Encode(img[1])
    /\ start.files[SavePath[3]] = StaleFile

\* C5: the directory step is the first call; an absent, creatable directory is created
\* (with its parent) before any file is written, a present one is left as it is, and
\* one that cannot be created ends the run there, no file written and no line printed.
C5_DirectoryStep ==
    LET creatable == start.dirs.out = "absent" /\ start.dirs.perm
        present == start.dirs.out = "dir"
    IN /\ Len(calls) <= 1 => (files = start.files /\ console = <<>>)
       /\ Len(calls) = 0 => dirs = start.dirs
       /\ Len(calls) > 0 =>
            /\ calls[1].op = "makedirs"
            /\ creatable => (calls[1].ok /\ dirs.out = "dir" /\ dirs.tmp = "dir")
            /\ present => (calls[1].ok /\ dirs = start.dirs)
            /\ (~creatable /\ ~present) =>
                 (exc # "" /\ Len(calls) = 1 /\ dirs = start.dirs /\ \A k \in Fixtures : ~Attempted(k))
       /\ (\E k \in Fixtures : Attempted(k)) => dirs.out = "dir"

\* image1 has been written into a directory that was created together with /tmp
C5_Witness == Written(1) /\ start.dirs.tmp = "absent" /\ start.dirs.perm /\ dirs.out = "dir"

\* C6 as stated: some pixel lies in both top circles and the triangle of image3, and
\* the saved image3 has the heart fill colour #ff5252 there.
C6_SharedOverlapIsHeartColour ==
    Written(3) =>
        /\ SharedOverlap # {}
        /\ InSharedOverlap(probe) => files[SavePath[3]].px = <<255, 82, 82>>

\* C6 amended: each top circle of image3 overlaps the triangle in at least one pixel,
\* no pixel lies in both circles, and the saved image3 has the heart fill colour
\* #ff5252 at every pixel of either overlap.
C6_CircleTriangleOverlapIsHeartColour ==
    Written(3) =>
        /\ LeftOverlapNonEmpty
        /\ RightOverlapNonEmpty
        /\ SharedOverlap = {}
        /\ (InLeftOverlap(probe) \/ InRightOverlap(probe)) => files[SavePath[3]].px = <<255, 82, 82>>

\* image3 has been saved and the probe lies in the left circle and in the triangle
C6_Witness == Written(3) /\ probe = <<130, 160>> /\ InLeftOverlap(probe)

\* C7: the confirmation lines never outnumber the files written and trail them by at
\* most one; the line of fixture k appears only after file k is written and names it;
\* the summary appears only after three files and three lines, and a run that has ended
\* has it exactly then; the console is always a prefix of the output of a successful
\* run, which a successful run prints in full.
C7_ConsoleTracksFiles ==
    /\ NumCreated <= NumWritten /\ NumWritten <= NumCreated + 1
    /\ \A k \in Fixtures : Emitted(CreatedLine[k]) => (Written(k) /\ CreatedLine[k][2] = SavePath[k][2])
    /\ Emitted(SummaryLines[2]) => (NumWritten = 3 /\ NumCreated = 3)
    /\ Ended => (Emitted(SummaryLines[2]) <=> (NumWritten = 3 /\ NumCreated = 3))
    /\ Len(console) <= Len(SuccessfulConsole) /\ console = SubSeq(SuccessfulConsole, 1, Len(console))
    /\ Done => console = SuccessfulConsole

\* image2 is written and its confirmation line is still to come
C7_Witness == Written(2) /\ NumWritten = 2 /\ NumCreated = 1 /\ Program[pc] = Stmt("print", 2, 0)

\* C8: the pixel of each saved image is the colour of the last draw operation that
\* paints it (its outline colour on its outline band, else its fill colour) and black
\* when none does; the centre of image1 is #667eea, image3 is black or #ff5252.
C8_PaintersAlgorithm ==
    \A k \in Fixtures :
        Written(k) =>
            /\ files[SavePath[k]].px = Painted(k, probe)
            /\ (k = 1 /\ probe = <<200, 200>>) => files[SavePath[k]].px = <<102, 126, 234>>
            /\ k = 3 => files[SavePath[k]].px \in {<<0, 0, 0>>, <<255, 82, 82>>}

\* image1 has been saved and the probe, on the circle's outline band, has the outline colour
C8_Witness == Written(1) /\ probe = <<200, 102>> /\ OnBand(Ops[1][1], probe) /\ files[SavePath[1]].px = <<118, 75, 162>>

\* C9: the canvas of fixture k+1 is allocated only after file k is written; a draw
\* operation of a fixture changes neither another fixture's canvas nor any file; once
\* file k is written no later step of the run changes it.
C9_FixturesAreSequentialAndSeparate ==
    [][ /\ \A k \in 1..2 : (~img[k + 1].bound /\ img'[k + 1].bound) => Written(k)
        /\ At("shape") => ((\A j \in Fixtures \ {Program[pc].k} : img'[j] = img[j]) /\ files' = files)
        /\ \A k \in Fixtures : (Written(k) /\ run' = run) => files'[SavePath[k]] = files[SavePath[k]]
      ]_vars

\* the star is about to be drawn on img2, over a pixel that the circle covers in img1
C9_Witness ==
    /\ Running /\ Program[pc] = Stmt("shape", 2, 1) /\ Written(1) /\ img[2].bound
    /\ probe = <<200, 200>> /\ img[1].px = <<102, 126, 234>>

\* C10 as stated: the directory is ensured as the first step of each fixture, right
\* before that fixture's canvas is allocated.
C10_DirectoryEnsuredPerFixture ==
    \A i \in DOMAIN calls : calls[i].op = "new" => (i > 1 /\ calls[i - 1].op = "makedirs")

\* C10 amended: the directory is ensured once per run, as the first call of the run,
\* before any canvas is allocated and any file written, and not again.
C10_DirectoryEnsuredOncePerRun ==
    /\ Len(calls) > 0 => calls[1].op = "makedirs"
    /\ \A i \in DOMAIN calls : i > 1 => calls[i].op # "makedirs"
    /\ \A i \in DOMAIN calls : calls[i].op \in {"new", "save"} => (calls[1] = Call("makedirs", 0, TRUE) /\ dirs.out = "dir")

\* all three files are written and the run has called makedirs once
C10_Witness == Written(3) /\ Cardinality({i \in DOMAIN calls : calls[i].op = "makedirs"}) = 1

====
